---- MODULE Spec2Model ----
(***************************************************************************)
(* Moisture forecasting pipeline of src/modeling.py (MoisturePredictor and *)
(* the __main__ script that drives it): prepare_data, the chronological    *)
(* splits, the sequence windows, the autoregressive forecast loop and the  *)
(* watering check.                                                         *)
(*                                                                         *)
(* Values that are float64 in the program are integers here; NaN is the    *)
(* one value outside the range of real readings.  Timestamps are minutes.  *)
(***************************************************************************)
EXTENDS Integers, Sequences, FiniteSets, TLC

(* ------------------------------ bounds -------------------------------- *)
MaxN == 8
MaxForecastHours == 2
MaxSeqLen == 3
MaxHoursAhead == 2
MaxWeight == 1
MaxCalls == 2
MaxEpochs == 12
MaxTrain == 3
MaxLen == 5
MaxFeatureCalls == 2

(* -------------------------- input domains ----------------------------- *)
Intervals == {30, 60}
FileOrders == {"ascending", "descending"}
TestSizes == {20, 50}
StartMinute == 22 * 60 + 30
ColumnSets ==
  { {"moisture"},
    {"moisture", "temperature", "humidity"},
    {"moisture", "moisture_smooth", "temperature", "humidity", "hour",
     "moisture_6h_mean"} }

(* --------------------------- program constants ------------------------ *)
NaN == -1
watering_threshold == 30

VARIABLES
  data,             \* self.data: rows in file order, each column |-> value
  interval,         \* sampling interval of the loaded table, in minutes
  data_clean,       \* self.data_clean
  feature_cols,     \* feature_cols returned by prepare_data
  X,                \* self.X
  y,                \* self.y
  forecast_hours,   \* argument of the prepare_data call
  lr_split,         \* index arrays of train_test_split in train_linear_regression
  lstm_data,        \* (X_train, X_test, y_train, y_test) of prepare_lstm_data
  lstm_model,       \* self.lstm_model
  hours_ahead,      \* argument of the forecast_future call
  current_sequence, \* forecast_future: current_sequence[0]
  forecasts,        \* forecast_future: forecasts
  forecast_df,      \* forecast_future: the returned frame
  alert,            \* __main__: outcome of the watering check
  pc,               \* position in the __main__ script
  error,            \* exception that ended the run, "" when none
  previous_df,      \* the frame an earlier forecast_future call returned
  ncalls            \* number of forecast_future calls made

vars == <<data, interval, data_clean, feature_cols, X, y, forecast_hours,
          lr_split, lstm_data, lstm_model, hours_ahead, current_sequence,
          forecasts, forecast_df, alert, pc, error, previous_df, ncalls>>

(* model.fit with the EarlyStopping callback, inside train_lstm *)
VARIABLES
  fit_pc,           \* "idle", "fitting", "ended", "failed"
  fit_build,        \* which Keras the import of tensorflow.keras resolves to
  fit_times,        \* timestamp of each X_train window, in array order
  fit_epochs,       \* the epochs argument
  val_loss,         \* history.history['val_loss']
  es_wait,          \* EarlyStopping.wait
  es_best,          \* EarlyStopping.best
  es_best_weights,  \* EarlyStopping.best_weights, as the epoch they are from
  stop_training,    \* model.stop_training
  model_weights,    \* the weights the model holds, as the epoch they are from
  kept_weights      \* the weights of self.lstm_model once train_lstm assigned it

fitVars == <<fit_pc, fit_build, fit_times, fit_epochs, val_loss, es_wait, es_best,
             es_best_weights, stop_training, model_weights, kept_weights>>

(* DataPreprocessor and the __main__ script of data.processing.py *)
VARIABLES
  pre_data,         \* self.data: [cols: column names in order, col: name |-> values]
  pre_before,       \* self.data as it was when the last call began
  pre_ops,          \* the calls made so far, in order
  pre_ret,          \* what the last call returned
  pre_stdout,       \* the lines the last call printed
  pre_sg,           \* how the savgol_filter call of the last apply_savitzky_golay ended
  pre_error         \* exception a call raised to the script, "" when none

preVars == <<pre_data, pre_before, pre_ops, pre_ret, pre_stdout, pre_sg, pre_error>>

(* main() of humidity_monitor.py: the monitoring loop and the alert mail *)
VARIABLES
  mon_pc,           \* "idle", "read", "connect", "sendmail", "quit", "finished"
  mon_slot,         \* how many 30-minute steps current_time is after base_date
  humidity,         \* what read_humidity returned last, in hundredths; None on failure
  alert_sent,       \* the alert_sent flag of main()
  record_count,     \* readings printed so far
  mon_delivered     \* alert mails the SMTP server accepted (sendmail returned)

monVars == <<mon_pc, mon_slot, humidity, alert_sent, record_count, mon_delivered>>

(* variables of the components other than MoisturePredictor *)
otherVars == <<fitVars, preVars, monVars>>

allVars == <<vars, otherVars>>

(* ------------------------------ helpers ------------------------------- *)
IsNaN(v) == v = NaN

Range(s) == {s[i] : i \in 1..Len(s)}

HourOf(ts) == (ts \div 60) % 24

Columns == DOMAIN data[1] \ {"timestamp"}

Column(table, c) == [i \in 1..Len(table) |-> table[i][c]]

(* the table a CSV file holds: one row per sample, k-th sample in time     *)
(* order at StartMinute + k * iv; a missing reading is NaN                 *)
SampleRow(k, cols, iv, miss) ==
  LET ts == StartMinute + k * iv
      all == [timestamp        |-> ts,
              moisture         |-> IF miss THEN NaN ELSE 80 - 5 * k,
              moisture_smooth  |-> IF miss THEN NaN ELSE 78 - 5 * k,
              temperature      |-> 20 + k,
              humidity         |-> 50 + k,
              hour             |-> HourOf(ts),
              moisture_6h_mean |-> 81 - 4 * k]
  IN  [c \in cols \cup {"timestamp"} |-> all[c]]

ReadCsv(n, cols, iv, order, missing) ==
  [i \in 1..n |->
     LET k == IF order = "ascending" THEN i - 1 ELSE n - i
     IN  SampleRow(k, cols, iv, k + 1 = missing)]

NoModel == [trained |-> FALSE, input_len |-> 0, n_features |-> 0, weights |-> 0]
NoSplit == [train |-> <<>>, test |-> <<>>]
NoLstmData == [X_train |-> <<>>, X_test |-> <<>>, y_train |-> <<>>, y_test |-> <<>>]
NoAlert == [needs_watering |-> FALSE, min_forecast |-> NaN, min_time |-> 0]

(* EarlyStopping.best before the first epoch (mode min), best_weights     *)
(* before any were captured                                               *)
Inf == 1000
None == -2
patience == 10

(* no fit call in progress *)
FitIdle ==
  /\ fit_pc = "idle"
  /\ fit_build = "keras2"
  /\ fit_times = <<>>
  /\ fit_epochs = 0
  /\ val_loss = <<>>
  /\ es_wait = 0
  /\ es_best = Inf
  /\ es_best_weights = None
  /\ stop_training = FALSE
  /\ model_weights = 0
  /\ kept_weights = None

NoTable == [cols |-> <<>>, col |-> <<>>]
NoSavgol == [kind |-> "none", window |-> 0, order |-> 0]

(* no DataPreprocessor at work *)
PreIdle ==
  /\ pre_data = NoTable
  /\ pre_before = NoTable
  /\ pre_ops = <<>>
  /\ pre_ret = <<>>
  /\ pre_stdout = <<>>
  /\ pre_sg = NoSavgol
  /\ pre_error = ""

(* no monitor running *)
MonIdle ==
  /\ mon_pc = "idle"
  /\ mon_slot = 0
  /\ humidity = None
  /\ alert_sent = FALSE
  /\ record_count = 0
  /\ mon_delivered = 0

(* MoisturePredictor.__init__ *)
Init ==
  \E n \in 1..MaxN, cols \in ColumnSets, iv \in Intervals, order \in FileOrders :
    \E missing \in 0..n :
      /\ data = ReadCsv(n, cols, iv, order, missing)
      /\ interval = iv
      /\ data_clean = <<>>
      /\ feature_cols = <<>>
      /\ X = <<>>
      /\ y = <<>>
      /\ forecast_hours = 0
      /\ lr_split = NoSplit
      /\ lstm_data = NoLstmData
      /\ lstm_model = NoModel
      /\ hours_ahead = 0
      /\ current_sequence = <<>>
      /\ forecasts = <<>>
      /\ forecast_df = <<>>
      /\ alert = NoAlert
      /\ pc = "start"
      /\ error = ""
      /\ previous_df = <<>>
      /\ ncalls = 0
      /\ FitIdle
      /\ PreIdle
      /\ MonIdle

(* ---------------------------- prepare_data ---------------------------- *)
HorizonSteps(hours) == hours * 2

(* a shift that wraps around instead of leaving the tail undefined *)
ShiftWrap(col, k) ==
  [i \in 1..Len(col) |-> col[((i + k - 1) % Len(col)) + 1]]

(* pandas Series.shift(-k) *)
Shift(col, k) ==
  [i \in 1..Len(col) |-> IF i + k <= Len(col) THEN col[i + k] ELSE NaN]

TargetCol(cols) == IF "moisture_smooth" \in cols THEN "moisture_smooth" ELSE "moisture"

WithTarget(table, tc, hours) ==
  LET shifted == Shift(Column(table, tc), HorizonSteps(hours))
  IN  [i \in 1..Len(table) |->
        [c \in DOMAIN table[i] \cup {"target"} |->
           IF c = "target" THEN shifted[i] ELSE table[i][c]]]

(* DataFrame.dropna(subset=['target']) *)
DropNaTarget(table) == SelectSeq(table, LAMBDA r : ~IsNaN(r["target"]))

Optional(cols, c) == IF c \in cols THEN <<c>> ELSE <<>>

FeatureCols(cols) ==
  <<TargetCol(cols)>> \o Optional(cols, "temperature") \o Optional(cols, "humidity")
    \o Optional(cols, "hour") \o Optional(cols, "moisture_6h_mean")

FeatureVector(row, fcols) == [j \in 1..Len(fcols) |-> row[fcols[j]]]

Values(table, fcols) == [i \in 1..Len(table) |-> FeatureVector(table[i], fcols)]

Crash(exc) ==
  /\ pc' = "crashed"
  /\ error' = exc

(* one prepare_data call, from wherever the caller makes it *)
PrepareDataCall(hours) ==
  /\ LET tc == TargetCol(Columns)
         withTarget == WithTarget(data, tc, hours)
         clean == DropNaTarget(withTarget)
         fcols == FeatureCols(Columns)
     IN  IF tc \notin Columns
         THEN /\ Crash("KeyError")            \* self.data[target_col]
              /\ UNCHANGED <<data, data_clean, feature_cols, X, y, forecast_hours>>
         ELSE /\ data' = withTarget
              /\ data_clean' = clean
              /\ feature_cols' = fcols
              /\ X' = Values(clean, fcols)
              /\ y' = Column(clean, "target")
              /\ forecast_hours' = hours
              /\ pc' = "prepared"
              /\ UNCHANGED error
  /\ UNCHANGED <<interval, lr_split, lstm_data, lstm_model, hours_ahead,
                 current_sequence, forecasts, forecast_df, alert>>
  /\ UNCHANGED <<previous_df, ncalls, otherVars>>

PrepareData(hours) ==
  /\ pc = "start"
  /\ PrepareDataCall(hours)

(* ----------------------- train_linear_regression ---------------------- *)
CeilPct(pct, n) == (pct * n + 99) \div 100

Arange(lo, hi) == [i \in 1..(hi - lo) |-> lo + i]

(* sklearn train_test_split(..., test_size=pct/100, shuffle=False): the    *)
(* index arrays it takes the train and the test rows with (1-based here)   *)
TrainTestSplit(n, pct) ==
  LET n_test == CeilPct(pct, n)
      n_train == n - n_test
  IN  [train |-> Arange(0, n_train), test |-> Arange(n_train, n_train + n_test)]

HasNaN(rows) == \E i \in 1..Len(rows) : \E j \in 1..Len(rows[i]) : IsNaN(rows[i][j])

TrainLinearRegression(pct) ==
  /\ pc = "prepared"
  /\ LET split == TrainTestSplit(Len(X), pct)
     IN  IF Len(split.train) = 0
         THEN /\ Crash("ValueError")          \* the resulting train set will be empty
              /\ UNCHANGED lr_split
         ELSE /\ lr_split' = split
              /\ IF HasNaN(X)
                 THEN Crash("ValueError")     \* LinearRegression: input contains NaN
                 ELSE pc' = "lr_trained" /\ UNCHANGED error
  /\ UNCHANGED <<data, interval, data_clean, feature_cols, X, y, forecast_hours,
                 lstm_data, lstm_model, hours_ahead, current_sequence, forecasts,
                 forecast_df, alert>>
  /\ UNCHANGED <<previous_df, ncalls, otherVars>>

(* -------------------------- prepare_lstm_data ------------------------- *)
SplitIdx(n) == (n * 8) \div 10

Windows(Xs, L) == [i \in 1..(Len(Xs) - L) |-> SubSeq(Xs, i, i + L - 1)]

Labels(ys, L) == [i \in 1..(Len(ys) - L) |-> ys[i + L]]

PrepareLstmData(Xs, ys, L) ==
  LET X_seq == Windows(Xs, L)
      y_seq == Labels(ys, L)
      split_idx == SplitIdx(Len(X_seq))
  IN  [X_train |-> SubSeq(X_seq, 1, split_idx),
       X_test  |-> SubSeq(X_seq, split_idx + 1, Len(X_seq)),
       y_train |-> SubSeq(y_seq, 1, split_idx),
       y_test  |-> SubSeq(y_seq, split_idx + 1, Len(y_seq))]

(* ------------------------------ train_lstm ---------------------------- *)
Weights == (0..MaxWeight) \cup {NaN}

(* Keras model.fit(validation_split=0.1): where the training windows are   *)
(* cut for validation                                                     *)
ValidationSplitAt(n) == (n * 9) \div 10

(* one train_lstm call, from wherever the caller makes it *)
TrainLstmCall(L, w) ==
  /\ LET d == PrepareLstmData(X, y, L)
         n_train == Len(d.X_train)
     IN  /\ lstm_data' = d
         /\ IF Len(X) - L <= 0
            THEN /\ Crash("IndexError")       \* X_train.shape[2] of an empty array
                 /\ UNCHANGED lstm_model
            ELSE IF ValidationSplitAt(n_train) \in {0, n_train}
            THEN /\ Crash("ValueError")       \* too few windows to carve validation
                 /\ UNCHANGED lstm_model
            ELSE /\ lstm_model' = [trained |-> TRUE, input_len |-> L,
                                   n_features |-> Len(feature_cols), weights |-> w]
                 /\ pc' = "lstm_trained"
                 /\ UNCHANGED error
  /\ UNCHANGED <<data, interval, data_clean, feature_cols, X, y, forecast_hours,
                 lr_split, hours_ahead, current_sequence, forecasts, forecast_df,
                 alert>>
  /\ UNCHANGED <<previous_df, ncalls, otherVars>>

TrainLstm(L, w) ==
  /\ pc = "lr_trained"
  /\ TrainLstmCall(L, w)

(* ---------------------------- forecast_future ------------------------- *)
ForecastSteps(hours) == hours * 2

PredValues == <<29, 30, 31>>

RECURSIVE SumMoisture(_)
SumMoisture(window) ==
  IF window = <<>> THEN 0 ELSE Head(window)[1] + SumMoisture(Tail(window))

(* lstm_model.predict: a fixed function of the trained weights and the     *)
(* window; NaN weights or a NaN input give NaN                            *)
Predict(model, window) ==
  IF IsNaN(model.weights) \/ HasNaN(window)
  THEN NaN
  ELSE PredValues[((model.weights + SumMoisture(window)) % Len(PredValues)) + 1]

(* self.X[-L:] *)
LastRows(Xs, L) == SubSeq(Xs, IF Len(Xs) > L THEN Len(Xs) - L + 1 ELSE 1, Len(Xs))

(* a roll in the other direction *)
RollRight(seq) ==
  IF seq = <<>> THEN seq ELSE <<seq[Len(seq)]>> \o SubSeq(seq, 1, Len(seq) - 1)

(* np.roll(current_sequence, -1, axis=1) *)
Roll(seq) == IF seq = <<>> THEN seq ELSE Tail(seq) \o <<Head(seq)>>

SetLast(seq, row) == [seq EXCEPT ![Len(seq)] = row]

(* a new row copied from the oldest row of the window *)
NewRowFromOldest(seq, pred) == [seq[1] EXCEPT ![1] = pred]

(* new_row = current_sequence[0, -1].copy(); new_row[0] = pred *)
NewRow(seq, pred) == [seq[Len(seq)] EXCEPT ![1] = pred]

ForecastEnter(hours) ==
  /\ hours_ahead' = hours
  /\ ncalls' = ncalls + 1
  /\ IF lstm_model.trained
     THEN /\ current_sequence' = LastRows(X, lstm_model.input_len)
          /\ forecasts' = <<>>
          /\ pc' = "forecasting"
     ELSE /\ pc' = "done"                     \* forecast_future returned None
          /\ UNCHANGED <<current_sequence, forecasts>>
  /\ UNCHANGED <<data, interval, data_clean, feature_cols, X, y, forecast_hours,
                 lr_split, lstm_data, lstm_model, forecast_df, alert, error>>
  /\ UNCHANGED otherVars

ForecastBegin(hours) ==
  /\ pc = "lstm_trained"
  /\ ForecastEnter(hours)
  /\ UNCHANGED previous_df

(* a second forecast_future call with the argument of the first, the       *)
(* caller keeping the frame the first one returned                        *)
ForecastAgain ==
  /\ pc = "forecast_returned"
  /\ ncalls < MaxCalls
  /\ previous_df' = forecast_df
  /\ ForecastEnter(hours_ahead)

(* self.X written through a view of it: the window rows end up in self.X *)
XAliased(Xs, seq) ==
  [i \in 1..Len(Xs) |->
     IF i > Len(Xs) - Len(seq) THEN seq[i - (Len(Xs) - Len(seq))] ELSE Xs[i]]

(* last_sequence.copy() and np.roll build new arrays: self.X is not written *)
XAfterStep(Xs, seq) == Xs

ForecastStep ==
  /\ pc = "forecasting"
  /\ Len(forecasts) < ForecastSteps(hours_ahead)
  /\ IF Len(current_sequence) # lstm_model.input_len
     THEN /\ Crash("ValueError")              \* input incompatible with the layer
          /\ UNCHANGED <<current_sequence, forecasts, X>>
     ELSE LET pred == Predict(lstm_model, current_sequence)
              updated == SetLast(Roll(current_sequence), NewRow(current_sequence, pred))
          IN  /\ forecasts' = Append(forecasts, pred)
              /\ current_sequence' = updated
              /\ X' = XAfterStep(X, updated)
              /\ UNCHANGED <<pc, error>>
  /\ UNCHANGED <<data, interval, data_clean, feature_cols, y, forecast_hours,
                 lr_split, lstm_data, lstm_model, hours_ahead, forecast_df, alert>>
  /\ UNCHANGED <<previous_df, ncalls, otherVars>>

freq_minutes == 30

(* pd.date_range(start, periods, freq) *)
DateRange(start, periods, freq) == [i \in 1..periods |-> start + (i - 1) * freq]

ForecastTimestamps(table, periods) ==
  DateRange(table[Len(table)]["timestamp"] + freq_minutes, periods, freq_minutes)

ForecastEnd ==
  /\ pc = "forecasting"
  /\ Len(forecasts) = ForecastSteps(hours_ahead)
  /\ LET stamps == ForecastTimestamps(data, Len(forecasts))
     IN  IF "moisture_smooth" \in Columns
         THEN /\ forecast_df' = [i \in 1..Len(forecasts) |->
                                   [timestamp |-> stamps[i],
                                    predicted_moisture |-> forecasts[i]]]
              /\ pc' = "forecast_returned"
              /\ UNCHANGED error
         ELSE /\ Crash("KeyError")            \* the plot reads data['moisture_smooth']
              /\ UNCHANGED forecast_df
  /\ UNCHANGED <<data, interval, data_clean, feature_cols, X, y, forecast_hours,
                 lr_split, lstm_data, lstm_model, hours_ahead, current_sequence,
                 forecasts, alert>>
  /\ UNCHANGED <<previous_df, ncalls, otherVars>>

(* ------------------------ __main__: watering check -------------------- *)
NotNaNIdx(df) == {i \in 1..Len(df) : ~IsNaN(df[i].predicted_moisture)}

(* Series.min(): NaN entries are skipped, NaN when nothing is left *)
SeriesMin(df) ==
  IF NotNaNIdx(df) = {} THEN NaN
  ELSE LET i == CHOOSE i \in NotNaNIdx(df) :
                  \A j \in NotNaNIdx(df) : df[i].predicted_moisture <= df[j].predicted_moisture
       IN  df[i].predicted_moisture

(* Series.idxmin(): the first position of the minimum *)
IdxMin(df) ==
  CHOOSE i \in NotNaNIdx(df) :
    /\ df[i].predicted_moisture = SeriesMin(df)
    /\ \A j \in NotNaNIdx(df) : df[j].predicted_moisture = SeriesMin(df) => i <= j

(* a non-strict comparison *)
AtOrBelowThreshold(v) == ~IsNaN(v) /\ v <= watering_threshold

(* min_forecast < watering_threshold; a comparison with NaN is False *)
BelowThreshold(v) == ~IsNaN(v) /\ v < watering_threshold

WateringCheck ==
  /\ pc = "forecast_returned"
  /\ IF Len(forecast_df) = 0
     THEN /\ Crash("IndexError")              \* forecast_df['timestamp'].iloc[0]
          /\ UNCHANGED alert
     ELSE LET min_forecast == SeriesMin(forecast_df)
          IN  /\ alert' = [needs_watering |-> BelowThreshold(min_forecast),
                           min_forecast |-> min_forecast,
                           min_time |-> IF BelowThreshold(min_forecast)
                                        THEN forecast_df[IdxMin(forecast_df)].timestamp
                                        ELSE 0]
              /\ pc' = "done"
              /\ UNCHANGED error
  /\ UNCHANGED <<data, interval, data_clean, feature_cols, X, y, forecast_hours,
                 lr_split, lstm_data, lstm_model, hours_ahead, current_sequence,
                 forecasts, forecast_df>>
  /\ UNCHANGED <<previous_df, ncalls, otherVars>>

(* ------------------- model.fit and EarlyStopping ---------------------- *)
(* validation losses an epoch can report *)
ValLosses == {1, 2}

(* tensorflow.keras is Keras 2 up to TensorFlow 2.15 and Keras 3 after it *)
Builds == {"keras2", "keras3"}

(* timestamps of the training windows, in the row order of the file *)
FitTimes(n, order) ==
  [i \in 1..n |->
     StartMinute + freq_minutes * (IF order = "ascending" THEN i ELSE n + 1 - i)]

(* the samples fit trains on and the ones it validates on *)
FitTrainPart == 1..ValidationSplitAt(Len(fit_times))
FitValPart == (ValidationSplitAt(Len(fit_times)) + 1)..Len(fit_times)

(* the predictor is not part of the fit loop *)
PredictorIdle ==
  /\ data = <<>>
  /\ interval = freq_minutes
  /\ data_clean = <<>>
  /\ feature_cols = <<>>
  /\ X = <<>>
  /\ y = <<>>
  /\ forecast_hours = 0
  /\ lr_split = NoSplit
  /\ lstm_data = NoLstmData
  /\ lstm_model = NoModel
  /\ hours_ahead = 0
  /\ current_sequence = <<>>
  /\ forecasts = <<>>
  /\ forecast_df = <<>>
  /\ alert = NoAlert
  /\ pc = "training"
  /\ error = ""
  /\ previous_df = <<>>
  /\ ncalls = 0

(* train_lstm reached model.fit with n training windows *)
InitFit ==
  \E n \in 1..MaxTrain, order \in FileOrders, build \in Builds :
    /\ PredictorIdle
    /\ PreIdle
    /\ MonIdle
    /\ fit_pc = "idle"
    /\ fit_build = build
    /\ fit_times = FitTimes(n, order)
    /\ fit_epochs = 0
    /\ val_loss = <<>>
    /\ es_wait = 0
    /\ es_best = Inf
    /\ es_best_weights = None
    /\ stop_training = FALSE
    /\ model_weights = 0
    /\ kept_weights = None

(* model.fit(..., validation_split=0.1, epochs=epochs): the split, then   *)
(* EarlyStopping.on_train_begin                                           *)
FitBegin(epochs) ==
  /\ fit_pc = "idle"
  /\ fit_epochs' = epochs
  /\ IF ValidationSplitAt(Len(fit_times)) \in {0, Len(fit_times)}
     THEN fit_pc' = "failed"                  \* ValueError: empty training data
     ELSE fit_pc' = "fitting"
  /\ es_wait' = 0
  /\ es_best' = Inf
  /\ es_best_weights' = None
  /\ stop_training' = FALSE
  /\ UNCHANGED <<fit_build, fit_times, val_loss, model_weights, kept_weights>>
  /\ UNCHANGED <<vars, preVars, monVars>>

(* one epoch of training, then EarlyStopping.on_epoch_end with its val_loss *)
FitEpoch(current) ==
  /\ fit_pc = "fitting"
  /\ ~stop_training
  /\ Len(val_loss) < fit_epochs
  /\ LET epoch == Len(val_loss)              \* 0-based, as Keras counts
         trained == epoch + 1                \* the weights after this epoch
         captured == IF es_best_weights = None THEN trained ELSE es_best_weights
         improved == current < es_best
         best_weights == IF improved THEN trained ELSE captured
         wait == IF improved THEN 0 ELSE es_wait + 1
         stop == wait >= patience /\ epoch > 0
     IN  /\ val_loss' = Append(val_loss, current)
         /\ es_best' = IF improved THEN current ELSE es_best
         /\ es_best_weights' = best_weights
         /\ es_wait' = wait
         /\ stop_training' = stop
         /\ model_weights' = IF stop /\ fit_build = "keras2"
                              THEN best_weights   \* restored on stopping
                              ELSE trained
  /\ UNCHANGED <<fit_pc, fit_build, fit_times, fit_epochs, kept_weights>>
  /\ UNCHANGED <<vars, preVars, monVars>>

(* the loop is over: EarlyStopping.on_train_end, then self.lstm_model = model *)
FitEnd ==
  /\ fit_pc = "fitting"
  /\ stop_training \/ Len(val_loss) >= fit_epochs
  /\ LET final == IF fit_build = "keras3" /\ es_best_weights # None
                  THEN es_best_weights
                  ELSE model_weights
     IN  /\ model_weights' = final
         /\ kept_weights' = final
  /\ fit_pc' = "ended"
  /\ UNCHANGED <<fit_build, fit_times, fit_epochs, val_loss, es_wait, es_best,
                 es_best_weights, stop_training>>
  /\ UNCHANGED <<vars, preVars, monVars>>

NextFit ==
  \/ \E epochs \in 0..MaxEpochs : FitBegin(epochs)
  \/ \E current \in ValLosses : FitEpoch(current)
  \/ FitEnd

SpecFit == InitFit /\ [][NextFit]_allVars

(* the training loop is a sequential program: it keeps taking steps *)
SpecFitFair == SpecFit /\ WF_allVars(NextFit)

(* ------------------------- DataPreprocessor --------------------------- *)
(* moisture is recorded in units that keep every mean, median and         *)
(* polynomial fit of the model a whole number                             *)
Unit == 420 * 60
Readings == {Unit, 2 * Unit}

(* window sizes the script and its callers pass, all odd *)
WindowSizes == {3, 5}

(* the window and order the polynomial fit is written out for *)
SgWindow == 5
SgOrder == 2

(* (window, order) pairs passed to apply_savitzky_golay *)
SgParams == {<<SgWindow, SgOrder>>, <<3, 4>>, <<11, 2>>}

(* the index of the table: one row per sampling interval *)
TableIndex(n) == [i \in 1..n |-> StartMinute + freq_minutes * (i - 1)]

DayOfWeek(ts) == (ts \div (24 * 60)) % 7

(* DataFrame.__setitem__: an existing column keeps its place, a new one   *)
(* goes last                                                              *)
SetColumn(t, name, values) ==
  LET cols == IF name \in Range(t.cols) THEN t.cols ELSE Append(t.cols, name)
  IN  [cols |-> cols,
       col |-> [c \in Range(cols) |-> IF c = name THEN values ELSE t.col[c]]]

NotNaNIn(values, S) == {i \in S : ~IsNaN(values[i])}

RECURSIVE SumOver(_, _)
SumOver(values, S) ==
  IF S = {} THEN 0
  ELSE LET i == CHOOSE j \in S : TRUE
       IN  values[i] + SumOver(values, S \ {i})

(* the rows of a centered window of odd size, cut at the ends of the series *)
CenteredWindow(i, size, n) ==
  {j \in 1..n : i - (size - 1) \div 2 <= j /\ j <= i + (size - 1) \div 2}

(* the rows of a window that ends at row i *)
TrailingWindow(i, size, n) == {j \in 1..n : i - size + 1 <= j /\ j <= i}

(* mean of the valid values of a window, NaN when there is none (min_periods=1) *)
MeanOver(values, S) ==
  LET valid == NotNaNIn(values, S)
  IN  IF valid = {} THEN NaN ELSE SumOver(values, valid) \div Cardinality(valid)

(* the k-th smallest of the values at rows S *)
KthSmallest(values, S, k) ==
  CHOOSE v \in {values[i] : i \in S} :
    /\ Cardinality({i \in S : values[i] < v}) < k
    /\ k <= Cardinality({i \in S : values[i] <= v})

MedianOver(values, S) ==
  LET valid == NotNaNIn(values, S)
      c == Cardinality(valid)
  IN  IF c = 0 THEN NaN
      ELSE IF c % 2 = 1 THEN KthSmallest(values, valid, (c + 1) \div 2)
      ELSE (KthSmallest(values, valid, c \div 2)
            + KthSmallest(values, valid, c \div 2 + 1)) \div 2

(* Series.rolling(window, center=True, min_periods=1).mean() *)
CenteredMean(values, size) ==
  [i \in 1..Len(values) |-> MeanOver(values, CenteredWindow(i, size, Len(values)))]

(* a median filter that pads the series with zeros at both ends *)
MedianZeroPadded(values, size) ==
  [i \in 1..Len(values) |->
     LET S == CenteredWindow(i, size, Len(values))
         pads == size - Cardinality(S)
         k == (size + 1) \div 2
     IN  IF k <= pads THEN 0 ELSE KthSmallest(values, S, k - pads)]

(* Series.rolling(window, center=True, min_periods=1).median() *)
CenteredMedian(values, size) ==
  [i \in 1..Len(values) |-> MedianOver(values, CenteredWindow(i, size, Len(values)))]

(* Series.rolling(window, min_periods=1).mean() *)
TrailingMean(values, size) ==
  [i \in 1..Len(values) |-> MeanOver(values, TrailingWindow(i, size, Len(values)))]

(* Series.diff() *)
Diff(values) ==
  [i \in 1..Len(values) |->
     IF i = 1 \/ IsNaN(values[i]) \/ IsNaN(values[i - 1]) THEN NaN
     ELSE values[i] - values[i - 1]]

(* fillna(method='ffill') on one column: from the first row on, a missing *)
(* cell takes the value of the cell before it                             *)
RECURSIVE Ffill(_)
Ffill(values) ==
  IF values = <<>> THEN <<>>
  ELSE LET front == Ffill(SubSeq(values, 1, Len(values) - 1))
           last == values[Len(values)]
       IN  Append(front, IF IsNaN(last) /\ front # <<>> THEN front[Len(front)] ELSE last)

(* fillna(method='bfill') on one column: from the last row back, a missing *)
(* cell takes the value of the cell after it                               *)
RECURSIVE Bfill(_)
Bfill(values) ==
  IF values = <<>> THEN <<>>
  ELSE LET rest == Bfill(Tail(values))
           first == Head(values)
       IN  <<IF IsNaN(first) /\ rest # <<>> THEN Head(rest) ELSE first>> \o rest

(* Series.pct_change() * 100: gaps are padded first, then the relative change *)
PctChange(values) ==
  LET padded == Ffill(values)
  IN  [i \in 1..Len(values) |->
         IF i = 1 \/ IsNaN(padded[i]) \/ IsNaN(padded[i - 1]) THEN NaN
         ELSE ((padded[i] - padded[i - 1]) * 100) \div padded[i - 1]]

(* forward-fill first, then backward-fill *)
FillNaForwardFirst(values) == Bfill(Ffill(values))

(* fillna(method='bfill') then fillna(method='ffill'), on one column *)
FillNa(values) == Ffill(Bfill(values))

(* the rows of savgol_filter's least-squares fit of order 2 over 5 points, *)
(* one row per position in the window, times the common denominator       *)
SgCoeffs ==
  << <<31, 9, -3, -5, 3>>, <<9, 13, 12, 6, -5>>, <<-3, 12, 17, 12, -3>>,
     <<-5, 6, 12, 13, 9>>, <<3, -5, -3, 9, 31>> >>
SgDenominator == 35

(* savgol_filter(x, 5, 2, mode='interp'): the first and last two values   *)
(* come from the fit to the first and last five points, the others from   *)
(* the fit centered on them; a NaN in the window gives NaN                *)
SavgolFilter(values) ==
  [i \in 1..Len(values) |->
     LET n == Len(values)
         half == (SgWindow - 1) \div 2
         start == IF i <= half THEN 1
                  ELSE IF i > n - half THEN n - SgWindow + 1
                  ELSE i - half
         at == i - start + 1
         rows == start..(start + SgWindow - 1)
     IN  IF NotNaNIn(values, rows) # rows THEN NaN
         ELSE SumOver([j \in 1..n |->
                        IF j \in rows THEN SgCoeffs[at][j - start + 1] * values[j]
                        ELSE 0], rows) \div SgDenominator]

(* the ways the savgol_filter call can end *)
SavgolOutcomes(values, window, order) ==
  IF order >= window
  THEN {[kind |-> "params", values |-> <<>>]}   \* ValueError: polyorder >= window_length
  ELSE IF window > Len(values)
  THEN {[kind |-> "fit", values |-> <<>>]}      \* ValueError: series shorter than the window
  ELSE IF NotNaNIn(values, 1..Len(values)) # 1..Len(values)
  THEN {[kind |-> "fit", values |-> <<>>],      \* LinAlgError in the edge fit, or
        [kind |-> "ok", values |-> SavgolFilter(values)]}  \* NaN carried through
  ELSE {[kind |-> "ok", values |-> SavgolFilter(values)]}

(* the calls the script makes, in its order: the denoising method chosen, *)
(* then apply_savitzky_golay as the script's second denoising call, then  *)
(* create_features; each may be left out                                  *)
DenoiseCalls == 2
IsDenoise(op) == op.name \in {"apply_moving_average", "apply_median_filter",
                              "apply_savitzky_golay"}
NumCalls(name) == Cardinality({k \in 1..Len(pre_ops) : pre_ops[k].name = name})
CanDenoise ==
  /\ pre_error = ""
  /\ pre_ops = <<>>
CanDenoiseAgain ==
  /\ pre_error = ""
  /\ Len(pre_ops) < DenoiseCalls
  /\ \A k \in 1..Len(pre_ops) : IsDenoise(pre_ops[k])
CanCreateFeatures ==
  /\ pre_error = ""
  /\ NumCalls("create_features") < MaxFeatureCalls

Call(name, window, order) == [name |-> name, window |-> window, order |-> order]

(* DataPreprocessor.__init__ on a table of n rows *)
InitPre ==
  \E n \in 1..MaxLen :
    \E moisture \in [1..n -> Readings \cup {NaN}] :
      /\ PredictorIdle
      /\ FitIdle
      /\ MonIdle
      /\ pre_data = [cols |-> <<"moisture", "temperature", "humidity">>,
                     col |-> [c \in {"moisture", "temperature", "humidity"} |->
                                IF c = "moisture" THEN moisture
                                ELSE IF c = "temperature" THEN [i \in 1..n |-> 20 + i]
                                ELSE [i \in 1..n |-> 50 + i]]]
      /\ pre_before = NoTable
      /\ pre_ops = <<>>
      /\ pre_ret = <<>>
      /\ pre_stdout = <<>>
      /\ pre_sg = NoSavgol
      /\ pre_error = ""

ApplyMovingAverage(window_size) ==
  /\ CanDenoise
  /\ LET smooth == CenteredMean(pre_data.col["moisture"], window_size)
     IN  /\ pre_data' = SetColumn(pre_data, "moisture_smooth", smooth)
         /\ pre_ret' = smooth
  /\ pre_before' = pre_data
  /\ pre_ops' = Append(pre_ops, Call("apply_moving_average", window_size, 0))
  /\ pre_stdout' = <<>>
  /\ UNCHANGED <<pre_sg, pre_error>>
  /\ UNCHANGED <<vars, fitVars, monVars>>

ApplyMedianFilter(kernel_size) ==
  /\ CanDenoise
  /\ LET median == CenteredMedian(pre_data.col["moisture"], kernel_size)
     IN  /\ pre_data' = SetColumn(pre_data, "moisture_median", median)
         /\ pre_ret' = median
  /\ pre_before' = pre_data
  /\ pre_ops' = Append(pre_ops, Call("apply_median_filter", kernel_size, 0))
  /\ pre_stdout' = <<>>
  /\ UNCHANGED <<pre_sg, pre_error>>
  /\ UNCHANGED <<vars, fitVars, monVars>>

(* the bare except catches whatever savgol_filter raised, prints, and     *)
(* returns apply_moving_average(column, window)                           *)
ApplySavitzkyGolay(window, order) ==
  /\ CanDenoiseAgain
  /\ \E out \in SavgolOutcomes(pre_data.col["moisture"], window, order) :
       /\ pre_sg' = [kind |-> out.kind, window |-> window, order |-> order]
       /\ IF out.kind = "ok"
          THEN /\ pre_data' = SetColumn(pre_data, "moisture_sg", out.values)
               /\ pre_ret' = out.values
               /\ pre_stdout' = <<>>
          ELSE LET smooth == CenteredMean(pre_data.col["moisture"], window)
               IN  /\ pre_stdout' =
                        <<"Savitzky-Golay filter failed, using moving average instead">>
                   /\ pre_data' = SetColumn(pre_data, "moisture_smooth", smooth)
                   /\ pre_ret' = smooth
  /\ pre_before' = pre_data
  /\ pre_ops' = Append(pre_ops, Call("apply_savitzky_golay", window, order))
  /\ UNCHANGED pre_error
  /\ UNCHANGED <<vars, fitVars, monVars>>

(* the table create_features has built when it reaches the fill *)
WithFeatures(t) ==
  LET n == Len(t.col["moisture"])
      hour == [i \in 1..n |-> HourOf(TableIndex(n)[i])]
      t1 == SetColumn(t, "hour", hour)
      t2 == SetColumn(t1, "day_of_week", [i \in 1..n |-> DayOfWeek(TableIndex(n)[i])])
      t3 == SetColumn(t2, "is_daytime",
                      [i \in 1..n |-> IF hour[i] >= 6 /\ hour[i] <= 18 THEN 1 ELSE 0])
      t4 == SetColumn(t3, "moisture_6h_mean", TrailingMean(t.col["moisture"], 12))
      t5 == SetColumn(t4, "moisture_12h_mean", TrailingMean(t.col["moisture"], 24))
      t6 == SetColumn(t5, "moisture_change", Diff(t.col["moisture"]))
  IN  SetColumn(t6, "moisture_change_pct", PctChange(t.col["moisture"]))

(* self.data.fillna(bfill) then self.data.fillna(ffill), in place: every column *)
FillTable(t) == [cols |-> t.cols, col |-> [c \in Range(t.cols) |-> FillNa(t.col[c])]]

CreateFeatures ==
  /\ CanCreateFeatures
  /\ pre_data' = FillTable(WithFeatures(pre_data))
  /\ pre_ret' = pre_data'
  /\ pre_before' = pre_data
  /\ pre_ops' = Append(pre_ops, Call("create_features", 0, 0))
  /\ pre_stdout' = <<>>
  /\ UNCHANGED <<pre_sg, pre_error>>
  /\ UNCHANGED <<vars, fitVars, monVars>>

NextPre ==
  \/ \E window_size \in WindowSizes : ApplyMovingAverage(window_size)
  \/ \E kernel_size \in WindowSizes : ApplyMedianFilter(kernel_size)
  \/ \E p \in SgParams : ApplySavitzkyGolay(p[1], p[2])
  \/ CreateFeatures

SpecPre == InitPre /\ [][NextPre]_allVars

Next ==
  \/ \E hours \in 0..MaxForecastHours : PrepareData(hours)
  \/ \E pct \in TestSizes : TrainLinearRegression(pct)
  \/ \E L \in 1..MaxSeqLen, w \in Weights : TrainLstm(L, w)
  \/ \E hours \in 0..MaxHoursAhead : ForecastBegin(hours)
  \/ ForecastAgain
  \/ ForecastStep
  \/ ForecastEnd
  \/ WateringCheck

Spec == Init /\ [][Next]_allVars

(* -------------------- MoisturePredictor.__init__: the file ------------- *)
(* the files of SpecLoad: with or without the timestamp and moisture      *)
(* columns, and with two rows that carry the same timestamp               *)
MaxRows == 5
FileColumnSets ==
  { {"timestamp", "moisture"},
    {"timestamp", "moisture", "moisture_smooth", "temperature", "humidity"},
    {"timestamp", "temperature", "humidity"},
    {"moisture", "temperature"} }

Without(table, cols) ==
  [i \in 1..Len(table) |-> [c \in DOMAIN table[i] \cap cols |-> table[i][c]]]

(* row d + 1 carries the timestamp of row d; d = 0 for no duplicate *)
WithDuplicate(table, d) ==
  [i \in 1..Len(table) |->
     IF d >= 1 /\ i = d + 1 /\ "timestamp" \in DOMAIN table[i]
     THEN [table[i] EXCEPT !["timestamp"] = table[d]["timestamp"]]
     ELSE table[i]]

AllColumns == {"timestamp", "moisture", "moisture_smooth", "temperature", "humidity",
               "hour", "moisture_6h_mean"}

FileRows(n, cols, d) ==
  WithDuplicate(Without(ReadCsv(n, AllColumns \ {"timestamp"}, freq_minutes,
                                "ascending", 0), cols), d)

(* the script is about to construct the predictor from a file *)
InitLoad ==
  \E n \in 1..MaxRows, cols \in FileColumnSets :
    \E d \in 0..(n - 1) :
      /\ data = FileRows(n, cols, d)
      /\ interval = freq_minutes
      /\ data_clean = <<>>
      /\ feature_cols = <<>>
      /\ X = <<>>
      /\ y = <<>>
      /\ forecast_hours = 0
      /\ lr_split = NoSplit
      /\ lstm_data = NoLstmData
      /\ lstm_model = NoModel
      /\ hours_ahead = 0
      /\ current_sequence = <<>>
      /\ forecasts = <<>>
      /\ forecast_df = <<>>
      /\ alert = NoAlert
      /\ pc = "loading"
      /\ error = ""
      /\ previous_df = <<>>
      /\ ncalls = 0
      /\ FitIdle
      /\ PreIdle
      /\ MonIdle

(* pd.read_csv(data_path, parse_dates=['timestamp']) and                  *)
(* set_index('timestamp'): a file without the column cannot be parsed,    *)
(* every other file becomes self.data as it is                            *)
Load ==
  /\ pc = "loading"
  /\ IF "timestamp" \in DOMAIN data[1]
     THEN /\ pc' = "start"
          /\ UNCHANGED error
     ELSE Crash("ValueError")                 \* Missing column provided to 'parse_dates'
  /\ UNCHANGED <<data, interval, data_clean, feature_cols, X, y, forecast_hours,
                 lr_split, lstm_data, lstm_model, hours_ahead, current_sequence,
                 forecasts, forecast_df, alert>>
  /\ UNCHANGED <<previous_df, ncalls, otherVars>>

NextLoad ==
  \/ Load
  \/ \E hours \in 0..MaxForecastHours : PrepareData(hours)
  \/ \E pct \in TestSizes : TrainLinearRegression(pct)
  \/ \E L \in 1..MaxSeqLen, w \in Weights : TrainLstm(L, w)

SpecLoad == InitLoad /\ [][NextLoad]_allVars

(* ------------- MoisturePredictor: calls in the caller's order ---------- *)
(* the predictor is between two calls *)
Between == {"start", "prepared", "lstm_trained", "forecast_returned", "done"}

(* a complete table in time order, sampled every 30 minutes *)
InitOrder ==
  /\ Init
  /\ interval = freq_minutes
  /\ \A i \in 1..Len(data) : data[i]["timestamp"] = StartMinute + (i - 1) * freq_minutes
  /\ \A i \in 1..Len(data) : ~IsNaN(data[i]["moisture"])

OrderPrepareData(hours) ==
  /\ pc \in Between
  /\ PrepareDataCall(hours)

OrderTrainLstm(L, w) ==
  /\ pc \in Between
  /\ IF feature_cols = <<>>
     THEN /\ Crash("AttributeError")          \* no self.X before prepare_data
          /\ UNCHANGED <<data, interval, data_clean, feature_cols, X, y, forecast_hours,
                         lr_split, lstm_data, lstm_model, hours_ahead,
                         current_sequence, forecasts, forecast_df, alert>>
          /\ UNCHANGED <<previous_df, ncalls, otherVars>>
     ELSE TrainLstmCall(L, w)

OrderForecastFuture(hours) ==
  /\ pc \in Between
  /\ ncalls < MaxCalls
  /\ ForecastEnter(hours)
  /\ UNCHANGED previous_df

NextOrder ==
  \/ \E hours \in 0..MaxForecastHours : OrderPrepareData(hours)
  \/ \E L \in 1..MaxSeqLen, w \in Weights : OrderTrainLstm(L, w)
  \/ \E hours \in 0..MaxHoursAhead : OrderForecastFuture(hours)
  \/ ForecastStep
  \/ ForecastEnd

SpecOrder == InitOrder /\ [][NextOrder]_allVars

(* ------------------- humidity_monitor.py: main loop ------------------- *)
(* the loop reads MaxSlot + 1 times, at steps 0..MaxSlot after base_date  *)
MaxSlot == 4
threshold == 30
HumidityValues == {25, 45}
SmtpOutcomes == {"ok", "raised"}
Sending == {"connect", "sendmail", "quit"}

InitMon ==
  /\ PredictorIdle
  /\ FitIdle
  /\ PreIdle
  /\ mon_pc = "read"
  /\ mon_slot = 0
  /\ humidity = None
  /\ alert_sent = FALSE
  /\ record_count = 0
  /\ mon_delivered = 0

(* current_time += timedelta(minutes=30), then the loop condition *)
NextSlot ==
  /\ mon_slot' = mon_slot + 1
  /\ mon_pc' = IF mon_slot + 1 <= MaxSlot THEN "read" ELSE "finished"

(* one pass of the loop up to the send_watering_alert call *)
ReadHumidity ==
  /\ mon_pc = "read"
  /\ \E h \in HumidityValues \cup {None} :
       /\ humidity' = h
       /\ IF h = None
          THEN /\ NextSlot                    \* "[Error] Failed to read humidity"
               /\ UNCHANGED record_count
          ELSE /\ record_count' = record_count + 1
               /\ IF h < threshold /\ ~alert_sent
                  THEN /\ mon_pc' = "connect"
                       /\ UNCHANGED mon_slot
                  ELSE NextSlot
  /\ UNCHANGED <<alert_sent, mon_delivered>>
  /\ UNCHANGED <<vars, fitVars, preVars>>

(* send_watering_alert returned False: the except branch *)
SendFailed ==
  /\ NextSlot
  /\ UNCHANGED alert_sent

(* smtplib.SMTP(...), starttls(), login(...) *)
SendConnect ==
  /\ mon_pc = "connect"
  /\ \E outcome \in SmtpOutcomes :
       IF outcome = "ok"
       THEN /\ mon_pc' = "sendmail"
            /\ UNCHANGED <<mon_slot, alert_sent>>
       ELSE SendFailed
  /\ UNCHANGED <<humidity, record_count, mon_delivered>>
  /\ UNCHANGED <<vars, fitVars, preVars>>

(* server.sendmail(...): the server takes the message or the call raises *)
SendMail ==
  /\ mon_pc = "sendmail"
  /\ \E outcome \in SmtpOutcomes :
       IF outcome = "ok"
       THEN /\ mon_delivered' = mon_delivered + 1
            /\ mon_pc' = "quit"
            /\ UNCHANGED <<mon_slot, alert_sent>>
       ELSE /\ SendFailed
            /\ UNCHANGED mon_delivered
  /\ UNCHANGED <<humidity, record_count>>
  /\ UNCHANGED <<vars, fitVars, preVars>>

(* server.quit(), return True and alert_sent = True; a quit that raises   *)
(* is caught by the same except branch                                    *)
SendQuit ==
  /\ mon_pc = "quit"
  /\ \E outcome \in SmtpOutcomes :
       IF outcome = "ok"
       THEN /\ alert_sent' = TRUE
            /\ NextSlot
       ELSE SendFailed
  /\ UNCHANGED <<humidity, record_count, mon_delivered>>
  /\ UNCHANGED <<vars, fitVars, preVars>>

NextMon ==
  \/ ReadHumidity
  \/ SendConnect
  \/ SendMail
  \/ SendQuit

SpecMon == InitMon /\ [][NextMon]_allVars

(* ====================================================================== *)
(*                               properties                               *)
(* ====================================================================== *)
Prepared == pc # "start"

NoMissing == \A i \in 1..Len(data) : ~IsNaN(data[i][TargetCol(Columns)])

SortedAscending ==
  \A i \in 1..Len(data) : \A j \in 1..Len(data) :
    i < j => data[i]["timestamp"] < data[j]["timestamp"]

IndexOf(fcols, name) == CHOOSE j \in 1..Len(fcols) : fcols[j] = name

AllWindows == lstm_data.X_train \o lstm_data.X_test

AllLabels == lstm_data.y_train \o lstm_data.y_test

(* the timestamp of the observation a feature vector was taken from *)
TimestampOf(v) ==
  (CHOOSE r \in Range(data) : FeatureVector(r, feature_cols) = v)["timestamp"]

(* C1: with no missing value in the target column, prepare_data with a    *)
(* horizon of H rows yields exactly max(0, N - H) examples; example t is  *)
(* the feature vector of row t paired with the target-column value of row *)
(* t + H, and t + H never passes the end of the table.                    *)
C1_ExamplesAlignWithHorizon ==
  (Prepared /\ NoMissing) =>
    LET H == HorizonSteps(forecast_hours)
        N == Len(data)
        tc == TargetCol(Columns)
    IN  /\ Len(X) = (IF N > H THEN N - H ELSE 0)
        /\ Len(y) = Len(X)
        /\ \A t \in 1..Len(X) :
             /\ t + H <= N
             /\ X[t] = FeatureVector(data[t], FeatureCols(Columns))
             /\ y[t] = data[t + H][tc]

C1_Witness ==
  /\ pc = "prepared"
  /\ NoMissing
  /\ HorizonSteps(forecast_hours) >= 2
  /\ Len(X) >= 2
  /\ Len(X) = Len(data) - HorizonSteps(forecast_hours)

(* C2: the target of every example is the target-column value observed    *)
(* forecast_hours hours after the example's own timestamp, and the        *)
(* forecast covers hours_ahead hours at the table's sampling interval,    *)
(* whatever that interval is.                                             *)
C2_HorizonInActualSampleSteps ==
  /\ (Prepared /\ NoMissing /\ SortedAscending) =>
       \A t \in 1..Len(data_clean) :
         \E q \in 1..Len(data) :
           /\ data[q]["timestamp"] = data_clean[t]["timestamp"] + forecast_hours * 60
           /\ data[q][TargetCol(Columns)] = y[t]
  /\ (pc = "forecast_returned") =>
       /\ Len(forecast_df) * interval = hours_ahead * 60
       /\ \A i \in 1..(Len(forecast_df) - 1) :
            forecast_df[i + 1].timestamp - forecast_df[i].timestamp = interval

(* C3: every window of prepare_lstm_data is a run of feature vectors of   *)
(* consecutive rows of the observation table.                             *)
C3_WindowsAreContiguous ==
  lstm_model.trained =>
    \A w \in Range(AllWindows) :
      \E r \in 1..Len(data) :
        \A j \in 1..Len(w) :
          /\ r + j - 1 <= Len(data)
          /\ w[j] = FeatureVector(data[r + j - 1], feature_cols)

(* C4: the label of a window whose last feature vector is that of row t   *)
(* is the target-column value of row t + 1, for every horizon.            *)
C4_LabelIsNextStep ==
  (lstm_model.trained /\ NoMissing) =>
    \A i \in 1..Len(AllWindows) :
      \A t \in 1..Len(data) :
        FeatureVector(data[t], feature_cols) = AllWindows[i][Len(AllWindows[i])] =>
          /\ t + 1 <= Len(data)
          /\ AllLabels[i] = data[t + 1][TargetCol(Columns)]

(* C5: every test example is later than every train example, both in the *)
(* split of train_linear_regression and in the one of prepare_lstm_data   *)
(* (a window is dated by its last feature vector).                        *)
C5_ChronologicalSplit ==
  /\ \A i \in Range(lr_split.train) : \A j \in Range(lr_split.test) :
       data_clean[i]["timestamp"] < data_clean[j]["timestamp"]
  /\ \A a \in Range(lstm_data.X_train) : \A b \in Range(lstm_data.X_test) :
       TimestampOf(a[Len(a)]) < TimestampOf(b[Len(b)])
(* ---------------------------- forecast loop --------------------------- *)
InitialWindow == LastRows(X, lstm_model.input_len)

LastRealRow == InitialWindow[Len(InitialWindow)]

(* the rows the loop has seen so far: the initial window, then one row    *)
(* per prediction, the last real row with the prediction as its moisture  *)
RowsAfter(k) ==
  InitialWindow \o [j \in 1..k |-> [LastRealRow EXCEPT ![1] = forecasts[j]]]

WindowAfter(k) == SubSeq(RowsAfter(k), k + 1, k + Len(InitialWindow))

InLoop == pc = "forecasting"

Returned == pc \in {"forecast_returned", "done"} /\ lstm_model.trained

(* positions of the synthetic rows in the current window *)
SyntheticPositions ==
  {p \in 1..Len(current_sequence) : p + Len(forecasts) > Len(current_sequence)}

(* the prediction a synthetic row at position p carries *)
PredictionAt(p) == p + Len(forecasts) - Len(current_sequence)

(* C6: after k iterations the window is the initial window without its k  *)
(* oldest rows, in order, followed by the synthetic rows in prediction    *)
(* order, each carrying its prediction in column 0; every prediction was  *)
(* made from the window of its iteration; exactly S predictions are       *)
(* emitted.                                                               *)
C6_AutoregressiveWindow ==
  /\ InLoop =>
       LET k == Len(forecasts)
           L == Len(InitialWindow)
       IN  /\ k <= ForecastSteps(hours_ahead)
           /\ Len(current_sequence) = L
           /\ \A p \in 1..L :
                IF p + k <= L
                THEN current_sequence[p] = InitialWindow[p + k]
                ELSE current_sequence[p][1] = forecasts[p + k - L]
           /\ \A j \in 1..k : forecasts[j] = Predict(lstm_model, WindowAfter(j - 1))
  /\ Returned =>
       /\ Len(forecast_df) = ForecastSteps(hours_ahead)
       /\ \A i \in 1..Len(forecast_df) : forecast_df[i].predicted_moisture = forecasts[i]

C6_Witness ==
  /\ InLoop
  /\ Len(forecasts) >= 2
  /\ Len(forecasts) < Len(current_sequence)
  /\ forecasts[1] # forecasts[2]

(* C7: the hour field of every synthetic row is the hour of the row's own *)
(* forecast timestamp.                                                    *)
C7_SyntheticHourRecomputed ==
  (InLoop /\ "hour" \in Range(feature_cols) /\ NoMissing /\ SortedAscending
     /\ interval = freq_minutes) =>
    \A p \in SyntheticPositions :
      current_sequence[p][IndexOf(feature_cols, "hour")] =
        HourOf(ForecastTimestamps(data, PredictionAt(p))[PredictionAt(p)])

(* C8: temperature and humidity of every synthetic row are those of the   *)
(* last real row of the initial window.                                   *)
C8_CovariatesHeld ==
  InLoop =>
    \A p \in SyntheticPositions :
      \A c \in {"temperature", "humidity"} \cap Range(feature_cols) :
        current_sequence[p][IndexOf(feature_cols, c)] =
          LastRealRow[IndexOf(feature_cols, c)]

C8_Witness ==
  /\ InLoop
  /\ Len(forecasts) >= 2
  /\ Len(current_sequence) >= 2
  /\ {"temperature", "humidity"} \subseteq Range(feature_cols)
  /\ Cardinality(SyntheticPositions) >= 2
  /\ InitialWindow[1] # LastRealRow

RECURSIVE MaxOf(_)
MaxOf(S) ==
  LET x == CHOOSE x \in S : TRUE
  IN  IF S = {x} THEN x
      ELSE LET m == MaxOf(S \ {x}) IN IF x > m THEN x ELSE m

LastObservationTime == MaxOf({data[i]["timestamp"] : i \in 1..Len(data)})

(* C9: one timestamp per prediction; the first is one sampling interval   *)
(* after the last observation and consecutive ones are one interval       *)
(* apart.                                                                 *)
C9_ForecastTimeline ==
  Returned =>
    /\ Len(forecast_df) = Len(forecasts)
    /\ Len(forecast_df) >= 1 =>
         forecast_df[1].timestamp = LastObservationTime + interval
    /\ \A i \in 1..(Len(forecast_df) - 1) :
         forecast_df[i + 1].timestamp - forecast_df[i].timestamp = interval

(* C10: needs_watering holds exactly when some predicted value is         *)
(* strictly below the threshold (so not when the minimum equals it), and  *)
(* then the trigger time is the timestamp of a forecast point no other    *)
(* point is below.                                                        *)
Checked == pc = "done" /\ Len(forecast_df) > 0

C10_WateringDecision ==
  Checked =>
    /\ alert.needs_watering <=>
         \E i \in NotNaNIdx(forecast_df) :
           forecast_df[i].predicted_moisture < watering_threshold
    /\ alert.needs_watering =>
         \E i \in NotNaNIdx(forecast_df) :
           /\ forecast_df[i].timestamp = alert.min_time
           /\ \A j \in NotNaNIdx(forecast_df) :
                forecast_df[i].predicted_moisture <= forecast_df[j].predicted_moisture

C10_Witness ==
  /\ Checked
  /\ alert.needs_watering
  /\ alert.min_time # forecast_df[1].timestamp
  /\ \E i \in 1..Len(forecast_df) :
       forecast_df[i].predicted_moisture = watering_threshold

(* ----------------------- repeated forecast call ----------------------- *)
InForecastCall == pc \in {"lstm_trained", "forecasting", "forecast_returned"}

SecondReturned == ncalls >= 2 /\ pc = "forecast_returned"

(* C11: a second forecast_future call with the same argument returns the  *)
(* frame the first one returned, and no step of a call changes self.X,    *)
(* the model or the tables the next call reads.                           *)
C11_ForecastIsRepeatable ==
  /\ [](SecondReturned => forecast_df = previous_df)
  /\ [][InForecastCall =>
          UNCHANGED <<X, y, lstm_model, data, data_clean, feature_cols>>]_allVars

C11_Witness ==
  /\ SecondReturned
  /\ Len(previous_df) >= 2
  /\ ~IsNaN(previous_df[1].predicted_moisture)
  /\ previous_df[1].predicted_moisture # previous_df[2].predicted_moisture

(* ------------------- test rows of the two regressors ------------------ *)
LrTestTargets == {y[i] : i \in Range(lr_split.test)}

LstmTestTargets == Range(lstm_data.y_test)

(* C18: with the default test_size of 0.2 the linear regression and the   *)
(* LSTM are tested on the same target rows, whatever the number of        *)
(* examples and the window length.                                        *)
C18_SameTestRows ==
  (lstm_model.trained /\ Len(lr_split.test) = CeilPct(20, Len(X))) =>
    LrTestTargets = LstmTestTargets

(* --------------------------- early stopping --------------------------- *)
RECURSIVE MinOf(_)
MinOf(s) ==
  IF Len(s) = 1 THEN s[1]
  ELSE LET m == MinOf(SubSeq(s, 1, Len(s) - 1))
       IN  IF s[Len(s)] < m THEN s[Len(s)] ELSE m

(* epoch k (1-based) did not improve on the best loss before it *)
FailedToImprove(k) == k > 1 /\ val_loss[k] >= MinOf(SubSeq(val_loss, 1, k - 1))

(* epoch k ends a run of patience epochs without improvement *)
PatienceExhausted(k) ==
  /\ k > patience
  /\ \A j \in (k - patience + 1)..k : FailedToImprove(j)

(* training runs no more than epochs epochs, and stops at the first epoch *)
(* that exhausts the patience                                             *)
StopsAtPatience ==
  /\ Len(val_loss) <= fit_epochs
  /\ \A k \in 1..Len(val_loss) :
       PatienceExhausted(k) <=> (k = Len(val_loss) /\ stop_training)

(* every validation sample is later than every sample trained on *)
ValidationIsLatest ==
  \A i \in FitTrainPart : \A j \in FitValPart : fit_times[i] < fit_times[j]

(* model.fit returns or raises *)
FitTerminates == <>(fit_pc \in {"ended", "failed"})

(* C19: training runs at most epochs epochs, stops at the first epoch at  *)
(* which the validation loss has not improved on its best for patience    *)
(* epochs in a row, and validates on the chronologically last tenth of    *)
(* the training windows.                                                  *)
C19_EarlyStopping ==
  fit_pc \in {"fitting", "ended"} => (StopsAtPatience /\ ValidationIsLatest)

(* C20: when training has ended, by early stop or at the epoch limit, the *)
(* model kept holds the weights of an epoch with the lowest validation    *)
(* loss.                                                                  *)
C20_BestWeightsKept ==
  (fit_pc = "ended" /\ Len(val_loss) > 0) =>
    /\ kept_weights \in 1..Len(val_loss)
    /\ val_loss[kept_weights] = MinOf(val_loss)


(* --------------------------- preprocessing ---------------------------- *)
LastCall == pre_ops[Len(pre_ops)]

LastCallIs(name) == Len(pre_ops) > 0 /\ LastCall.name = name

(* the moisture column the last call was given *)
GivenMoisture == pre_before.col["moisture"]

NoGaps(values) == \A i \in 1..Len(values) : ~IsNaN(values[i])

LeastOf(values, S) == CHOOSE v \in {values[i] : i \in S} : \A j \in S : v <= values[j]

GreatestOf(values, S) == CHOOSE v \in {values[i] : i \in S} : \A j \in S : values[j] <= v

(* C12: on a series without missing values the median filter returns a   *)
(* series of the same length, stored as a column of the table, and each   *)
(* of its values lies between the least and the greatest input value of   *)
(* the centered window at that row, cut at the ends of the series.        *)
C12_MedianWithinWindow ==
  (LastCallIs("apply_median_filter") /\ NoGaps(GivenMoisture)) =>
    /\ Len(pre_ret) = Len(GivenMoisture)
    /\ pre_data.col["moisture_median"] = pre_ret
    /\ \A i \in 1..Len(pre_ret) :
         LET S == CenteredWindow(i, LastCall.window, Len(GivenMoisture))
         IN  /\ LeastOf(GivenMoisture, S) <= pre_ret[i]
             /\ pre_ret[i] <= GreatestOf(GivenMoisture, S)

C12_Witness ==
  /\ LastCallIs("apply_median_filter")
  /\ NoGaps(GivenMoisture)
  /\ Len(GivenMoisture) >= 4
  /\ GivenMoisture[1] # GivenMoisture[2]
  /\ pre_ret # GivenMoisture

FallbackLine == "Savitzky-Golay filter failed, using moving average instead"

FallbackSignalled == pre_stdout = <<FallbackLine>>

(* C13: when the polynomial fit fails the call returns the centered       *)
(* moving average of the column over the same window and prints the       *)
(* fallback line; a failure of another kind (parameters savgol_filter     *)
(* rejects) reaches the caller as an exception; a fit that succeeds       *)
(* prints nothing.                                                        *)
C13_FallbackOnlyOnFitFailure ==
  LastCallIs("apply_savitzky_golay") =>
    /\ pre_sg.kind = "fit" =>
         /\ pre_error = ""
         /\ pre_ret = CenteredMean(GivenMoisture, pre_sg.window)
         /\ FallbackSignalled
    /\ pre_sg.kind = "params" => pre_error # ""
    /\ pre_sg.kind = "ok" => pre_stdout = <<>>

Later(values, i) == NotNaNIn(values, i..Len(values))

Earlier(values, i) == NotNaNIn(values, 1..i)

(* C14: after create_features the table has the columns of the feature    *)
(* table; a column with a valid value has no missing cell; a valid cell    *)
(* keeps its value; a missing cell takes the nearest later valid value     *)
(* of its column, or the nearest earlier one when there is none later.     *)
(* The feature columns are among the filled ones.                          *)
C14_GapFill ==
  LastCallIs("create_features") =>
   LET unfilled == WithFeatures(pre_before)   \* the table before the fill
   IN
    /\ pre_data.cols = unfilled.cols
    /\ "moisture_change" \in Range(pre_data.cols)
    /\ \A c \in Range(pre_data.cols) :
         LET before == unfilled.col[c]
             after == pre_data.col[c]
         IN  \A i \in 1..Len(before) :
               /\ Later(before, 1) # {} => ~IsNaN(after[i])
               /\ ~IsNaN(before[i]) => after[i] = before[i]
               /\ (IsNaN(before[i]) /\ Later(before, i) # {}) =>
                    \E j \in Later(before, i) :
                      /\ \A k \in Later(before, i) : j <= k
                      /\ after[i] = before[j]
               /\ (IsNaN(before[i]) /\ Later(before, i) = {}
                     /\ Earlier(before, i) # {}) =>
                    \E j \in Earlier(before, i) :
                      /\ \A k \in Earlier(before, i) : k <= j
                      /\ after[i] = before[j]

(* a gap with different valid readings on its two sides, and a trailing gap *)
C14_Witness ==
  /\ LastCallIs("create_features")
  /\ Len(GivenMoisture) >= 4
  /\ ~IsNaN(GivenMoisture[1])
  /\ IsNaN(GivenMoisture[2])
  /\ ~IsNaN(GivenMoisture[3])
  /\ GivenMoisture[1] # GivenMoisture[3]
  /\ IsNaN(GivenMoisture[Len(GivenMoisture)])

(* C15: a second create_features call leaves the table as the first call  *)
(* left it: same columns in the same order, same value in every cell.     *)
C15_CreateFeaturesIdempotent ==
  (Len(pre_ops) >= 2 /\ LastCallIs("create_features")
     /\ pre_ops[Len(pre_ops) - 1].name = "create_features") =>
    pre_data = pre_before

(* C16: moisture_6h_mean and moisture_12h_mean are the rolling means of   *)
(* the smoothed moisture column over the 12-row and the 24-row window.    *)
C16_RollingMeansOfSmoothed ==
  (LastCallIs("create_features") /\ "moisture_smooth" \in Range(pre_before.cols)) =>
    /\ pre_data.col["moisture_6h_mean"] =
         FillNa(TrailingMean(pre_before.col["moisture_smooth"], 12))
    /\ pre_data.col["moisture_12h_mean"] =
         FillNa(TrailingMean(pre_before.col["moisture_smooth"], 24))

(* C17: after the one denoising call that was selected, the column        *)
(* prepare_data takes as moisture feature and as source of the target is  *)
(* the series that call produced.                                         *)
C17_SelectedSeriesIsUsed ==
  (Len(pre_ops) = 1 /\ IsDenoise(pre_ops[1])) =>
    /\ FeatureCols(Range(pre_data.cols))[1] = TargetCol(Range(pre_data.cols))
    /\ pre_data.col[TargetCol(Range(pre_data.cols))] = pre_ret


(* ------------------------- loading and row order ---------------------- *)
AscendingRows(table) ==
  \A i \in 1..Len(table) : \A j \in 1..Len(table) :
    i < j => table[i]["timestamp"] < table[j]["timestamp"]

(* C21: the rows of the loaded table, and of the examples taken from it,  *)
(* are in ascending timestamp order whatever the row order of the file.   *)
C21_RowsAscendingAfterLoad == AscendingRows(data) /\ AscendingRows(data_clean)

(* ---------------------------- short series ---------------------------- *)
(* C23: prepare_data does not return normally with an empty example set,  *)
(* and no step goes on to train with an empty train or test split or an   *)
(* empty window list: a series too short for the horizon or the window    *)
(* length ends the run before training, with a configuration error.       *)
C23_ShortSeriesReported ==
  /\ pc = "prepared" => Len(X) >= 1
  /\ pc = "lr_trained" => (Len(lr_split.train) >= 1 /\ Len(lr_split.test) >= 1)
  /\ (pc = "crashed" /\ Len(X) = 0) => error = "ConfigurationError"
  /\ (pc = "crashed" /\ lr_split # NoSplit /\ AllWindows = <<>> /\ ~HasNaN(X)) =>
       error = "ConfigurationError"

(* ------------------------- sequence windows --------------------------- *)
(* the observation a window ends at *)
WindowEnd(w) == TimestampOf(w[Len(w)])

(* the window list is the list of runs of L consecutive examples, each    *)
(* labelled with the target of the example after it; the first            *)
(* floor(0.8 * W) windows train, the others test, and there is a test     *)
(* window                                                                 *)
WindowsPartitioned ==
  AllWindows # <<>> =>
    LET L == Len(AllWindows[1])
        W == Len(X) - L
        k == Len(lstm_data.X_train)
    IN  /\ Len(AllWindows) = W
        /\ Len(AllLabels) = W
        /\ \A i \in 1..W : AllWindows[i] = SubSeq(X, i, i + L - 1)
        /\ \A i \in 1..W : AllLabels[i] = y[i + L]
        /\ 10 * k <= 8 * W /\ 8 * W < 10 * (k + 1)
        /\ Len(lstm_data.y_train) = k
        /\ Len(lstm_data.X_test) >= 1

WindowsInTimeOrder ==
  \A i \in 1..Len(AllWindows) : \A j \in 1..Len(AllWindows) :
    i < j => WindowEnd(AllWindows[i]) < WindowEnd(AllWindows[j])

(* C25: prepare_lstm_data yields the n - L windows in time order, trains  *)
(* on the first floor(0.8 * W) of them and tests on all the others, and   *)
(* the test set is not empty when there is a window; a model is trained   *)
(* only when there is one.                                                *)
C25_LstmWindowsSplit ==
  /\ WindowsPartitioned
  /\ WindowsInTimeOrder
  /\ lstm_model.trained => AllWindows # <<>>

(* ----------------------- first forecast window ------------------------ *)
LastObservation == data[Len(data)]

(* C26: while forecast_future runs and after it returned, the window it   *)
(* started from ends at the feature vector of the last observation of the *)
(* loaded table, the one the forecast timeline starts after.              *)
C26_FirstWindowEndsAtLastObservation ==
  (lstm_model.trained /\ pc \in {"forecasting", "forecast_returned"}) =>
    /\ LastRealRow = FeatureVector(LastObservation, feature_cols)
    /\ pc = "forecast_returned" /\ Len(forecast_df) >= 1 =>
         forecast_df[1].timestamp = LastObservation["timestamp"] + freq_minutes

(* --------------------------- target leakage --------------------------- *)
(* the position in the loaded table of an example *)
RowOf(example) == CHOOSE k \in 1..Len(data) : data[k]["timestamp"] = example["timestamp"]

(* the time of the observation an example's target was taken from *)
TargetTime(example) == data[RowOf(example) + HorizonSteps(forecast_hours)]["timestamp"]

(* C27: in the split of train_linear_regression the target of every       *)
(* training example is an observation earlier than the first test example. *)
C27_NoTestPeriodInTrainTargets ==
  Len(lr_split.test) >= 1 =>
    \A i \in Range(lr_split.train) :
      TargetTime(data_clean[i]) < data_clean[lr_split.test[1]]["timestamp"]


(* ----------------------- observation columns -------------------------- *)
ObservationCols == {"moisture", "temperature", "humidity"}

(* C24: a preprocessing call leaves the moisture, temperature and         *)
(* humidity columns of the table it was given as they were, row by row.   *)
C24_ObservationsUnchanged ==
  pre_ops # <<>> =>
    \A c \in ObservationCols : pre_data.col[c] = pre_before.col[c]

(* ------------------ smoothed series and Savitzky-Golay ---------------- *)
HadSmooth == "moisture_smooth" \in Range(pre_before.cols)

(* C28: apply_savitzky_golay leaves a moisture_smooth column that the     *)
(* table already has as it was, whether the fit succeeds or falls back.   *)
C28_SavgolKeepsSmooth ==
  (LastCallIs("apply_savitzky_golay") /\ HadSmooth) =>
    pre_data.col["moisture_smooth"] = pre_before.col["moisture_smooth"]


(* ------------------------- tables that must abort --------------------- *)
HasTimestamps == "timestamp" \in DOMAIN data[1]

DuplicateTimestamps ==
  /\ HasTimestamps
  /\ \E i \in 1..Len(data) : \E j \in 1..Len(data) :
       i # j /\ data[i]["timestamp"] = data[j]["timestamp"]

LacksRequiredColumn == ~HasTimestamps \/ "moisture" \notin DOMAIN data[1]

NothingProduced ==
  /\ data_clean = <<>>
  /\ X = <<>>
  /\ y = <<>>
  /\ lr_split = NoSplit
  /\ lstm_data = NoLstmData
  /\ ~lstm_model.trained

(* C22: a table with two rows of the same timestamp, or without a         *)
(* required column, never gets past loading: the run ends in an error and *)
(* no example, split or model is produced from it.                        *)
C22_BadTableAborts ==
  (DuplicateTimestamps \/ LacksRequiredColumn) =>
    /\ pc \in {"loading", "start", "crashed"}
    /\ NothingProduced

(* ----------------------- calls in any order --------------------------- *)
(* C29: a forecast_future call made before a model was trained returns    *)
(* None without an error and without a forecast; and whenever             *)
(* forecast_future is about to feed its window to the model, the window   *)
(* has the length and the feature width the model was trained with.       *)
C29_ForecastFitsModel ==
  /\ (pc = "done" /\ ~lstm_model.trained) =>
       (error = "" /\ forecast_df = <<>> /\ forecasts = <<>> /\ current_sequence = <<>>)
  /\ (pc = "forecasting" /\ Len(forecasts) < ForecastSteps(hours_ahead)) =>
       /\ Len(current_sequence) = lstm_model.input_len
       /\ \A i \in 1..Len(current_sequence) :
            Len(current_sequence[i]) = lstm_model.n_features

(* ------------------------------ alert latch --------------------------- *)
(* C30: the server accepts at most one alert mail in a run, and a send is *)
(* in progress only while no send has succeeded and the reading it is     *)
(* for was read successfully and is below the threshold.                  *)
C30_AlertLatch ==
  /\ mon_delivered <= 1
  /\ mon_pc \in Sending =>
       (~alert_sent /\ humidity # None /\ humidity < threshold)

====
